---- MODULE Spec2Model ----
(***************************************************************************)
(* Constraint checking and cycle / order bookkeeping of the rotational     *)
(* molding scheduler: RTXMachine, Arm, Mold, BalancingWeight, Order        *)
(* (src/one.py) and MoldDatabase (src/molds_class_complete.py).            *)
(*                                                                         *)
(* Numbers.  The Python code computes with floats.  The model keeps every  *)
(* quantity an integer in a fixed unit and draws inputs for which the      *)
(* float computation is exact:                                             *)
(*   - torques in tenths of Nm, distances in tenths of m, weights in kg;   *)
(*     the inputs are multiples of 0.5, so sums and differences are exact; *)
(*   - heating times and temperatures are integer valued, for which        *)
(*     abs(a - b) / a <= 0.02 is exactly 50 * |a - b| <= a  (a > 0);       *)
(*   - target torques and weight options of minimize_weight_count in       *)
(*     halves (0.5), exact in binary floating point.                       *)
(* A Python exception is an outcome of its own (kind "raise").             *)
(***************************************************************************)
EXTENDS Integers, Sequences, FiniteSets, TLC

VARIABLES
    \* RTXMachine (src/one.py:202-208)
    arms_list, current_cycle, daily_cycles_completed, max_daily_cycles,
    \* Order (src/one.py:248-253)
    mold_requirements, completion_status, is_complete,
    \* BalancingWeight (src/one.py:155-158)
    weight_options, weight,
    \* MoldDatabase.molds: mold_id -> available_quantity
    molds,
    \* minimize_weight_count's frame (src/one.py:188-197)
    mwc,
    \* the last call made (operation and arguments) and what it returned
    call, ret,
    \* history of the calls of several callers on one machine: the successful
    \* execute_cycle calls in order (caller and cycle number returned), and
    \* whether some change_arrangement had a negative setup_time_loss
    history

vars == <<arms_list, current_cycle, daily_cycles_completed, max_daily_cycles,
          mold_requirements, completion_status, is_complete,
          weight_options, weight, molds, mwc, call, ret, history>>

machineVars == <<arms_list, current_cycle, daily_cycles_completed, max_daily_cycles>>
orderVars == <<mold_requirements, completion_status, is_complete>>
weightVars == <<weight_options, weight>>

(***************************************************************************)
(* Bounds of the model.                                                    *)
(***************************************************************************)
MaxArms == 2
MaxQuota == 9
MaxLoss == 3
MaxReq == 5
MaxQty == 3
MaxTracked == 6
MaxOpts == 2
MaxOption == 3
MaxTarget == 5
MaxStock == 2
MaxUse == 2
MaxDebt == 3
MaxPositions == 3
MaxMolds == 3
MaxCallers == 2

(***************************************************************************)
(* Program constants.                                                      *)
(***************************************************************************)
InitialMaxDailyCycles == 7
BalanceToleranceTenths == 1
CompatDivisor == 50

Abs(x) == IF x < 0 THEN -x ELSE x
Max(a, b) == IF a >= b THEN a ELSE b

NoCall == [op |-> "none"]
NoRet == [kind |-> "none"]
Return(ok, text, arg) == [kind |-> "return", ok |-> ok, text |-> text, arg |-> arg]
Raise(what) == [kind |-> "raise", what |-> what]
Value(v) == [kind |-> "return", value |-> v]
EmptyMap == [x \in {} |-> 0]
Range(f) == { f[x] : x \in DOMAIN f }

(***************************************************************************)
(* Mold (src/one.py:2-35).  T / F are the boolean results of a check, E a  *)
(* ZeroDivisionError raised while computing it.                            *)
(***************************************************************************)
MkMold(id, vol, w, dist, htime, htemp) ==
    [mold_id |-> id, volume |-> vol, weight |-> w, distance_from_center |-> dist,
     heating_time |-> htime, heating_temperature |-> htemp]

MoldA1 == MkMold("A1", 10, 5, 5, 3, 200)
MoldA3 == MkMold("A3", 0, 0, 0, 0, 0)
MoldA4 == MkMold("A4", 5, 2, 5, 10, 270)
MoldB1 == MkMold("B1", 10, 5, 5, 3, 204)
MoldB2 == MkMold("B2", 10, 5, 5, 3, 196)

calculate_torque(mold) == mold.weight * mold.distance_from_center

check_compatibility_with(self, other) ==
    IF self.heating_temperature = 0 \/ self.heating_time = 0
    THEN "E"
    ELSE IF /\ CompatDivisor * Abs(self.heating_temperature - other.heating_temperature)
                   <= self.heating_temperature
            /\ CompatDivisor * Abs(self.heating_time - other.heating_time)
                   <= self.heating_time
         THEN "T"
         ELSE "F"

(***************************************************************************)
(* Arm (src/one.py:79-150).                                                *)
(***************************************************************************)
RECURSIVE SumVolume(_)
SumVolume(s) == IF s = <<>> THEN 0 ELSE Head(s).volume + SumVolume(Tail(s))

RECURSIVE SumTorque(_)
SumTorque(s) == IF s = <<>> THEN 0 ELSE calculate_torque(Head(s)) + SumTorque(Tail(s))

check_spatial_constraint(arm) ==
    IF SumVolume(arm.current_molds) + SumVolume(arm.current_spiders) <= arm.max_volume
    THEN "T" ELSE "F"

calculate_balance_torque(arm) ==
    arm.torque_right_side - arm.torque_left_side + SumTorque(arm.current_molds)

check_balance_constraint(arm) ==
    IF Abs(calculate_balance_torque(arm)) <= BalanceToleranceTenths THEN "T" ELSE "F"

\* the loop of check_temperature_compatibility over current_molds[1:], from index i
RECURSIVE TempLoop(_, _)
TempLoop(ms, i) ==
    IF i > Len(ms) THEN "T"
    ELSE LET c == check_compatibility_with(ms[1], ms[i])
         IN  IF c = "T" THEN TempLoop(ms, i + 1) ELSE c

\* check_temperature_compatibility comparing each adjacent pair, from index i
RECURSIVE TempLoopAdjacent(_, _)
TempLoopAdjacent(ms, i) ==
    IF i > Len(ms) THEN "T"
    ELSE LET c == check_compatibility_with(ms[i - 1], ms[i])
         IN  IF c = "T" THEN TempLoopAdjacent(ms, i + 1) ELSE c

check_temperature_compatibility_adjacent(arm) ==
    IF Len(arm.current_molds) <= 1 THEN "T" ELSE TempLoopAdjacent(arm.current_molds, 2)

check_temperature_compatibility(arm) ==
    IF Len(arm.current_molds) <= 1 THEN "T" ELSE TempLoop(arm.current_molds, 2)

\* the loop of check_duration_compatibility over range(len - 1), from index i
RECURSIVE DurLoop(_, _)
DurLoop(ms, i) ==
    IF i > Len(ms) - 1 THEN "T"
    ELSE LET c == check_compatibility_with(ms[i], ms[i + 1])
         IN  IF c = "T" THEN DurLoop(ms, i + 1) ELSE c

check_duration_compatibility(arm) ==
    IF Len(arm.current_molds) <= 1 THEN "T" ELSE DurLoop(arm.current_molds, 1)

(***************************************************************************)
(* RTXMachine (src/one.py:201-243).                                        *)
(***************************************************************************)
SpatialMsg == "Spatial constraint violated on arm"
BalanceMsg == "Balance constraint violated on arm"
TemperatureMsg == "Temperature compatibility failed on arm"
DurationMsg == "Duration compatibility failed on arm"
AllSatisfiedMsg == "All constraints satisfied"
LimitMsg == "Daily cycle limit reached"
CycleMsg == "Cycle completed successfully"
NoArg == "-"

\* one check of the loop body: raise on E, return the failure on F, go on on T
CheckArm(arm) ==
    LET s == check_spatial_constraint(arm)
        b == check_balance_constraint(arm)
        t == check_temperature_compatibility(arm)
        d == check_duration_compatibility(arm)
    IN  IF s # "T" THEN Return(FALSE, SpatialMsg, arm.arm_id)
        ELSE IF b # "T" THEN Return(FALSE, BalanceMsg, arm.arm_id)
        ELSE IF t = "E" THEN Raise("ZeroDivisionError")
        ELSE IF t = "F" THEN Return(FALSE, TemperatureMsg, arm.arm_id)
        ELSE IF d = "E" THEN Raise("ZeroDivisionError")
        ELSE IF d = "F" THEN Return(FALSE, DurationMsg, arm.arm_id)
        ELSE Return(TRUE, AllSatisfiedMsg, NoArg)

RECURSIVE ValidateFrom(_, _)
ValidateFrom(arms, i) ==
    IF i > Len(arms) THEN Return(TRUE, AllSatisfiedMsg, NoArg)
    ELSE LET r == CheckArm(arms[i])
         IN  IF r.kind = "return" /\ r.ok THEN ValidateFrom(arms, i + 1) ELSE r

validate_arrangement(arms) == ValidateFrom(arms, 1)

\* execute_cycle with the quota test off by one (> for >=)
execute_cycle_quota_off_by_one(arms, cc, dcc, mdc) ==
    LET v == validate_arrangement(arms)
    IN  IF ~(v.kind = "return" /\ v.ok)
        THEN [cc |-> cc, dcc |-> dcc, res |-> v]
        ELSE IF dcc > mdc
        THEN [cc |-> cc, dcc |-> dcc, res |-> Return(FALSE, LimitMsg, NoArg)]
        ELSE [cc |-> cc + 1, dcc |-> dcc + 1, res |-> Return(TRUE, CycleMsg, cc + 1)]

\* execute_cycle testing the quota before it validates
execute_cycle_quota_first(arms, cc, dcc, mdc) ==
    LET v == validate_arrangement(arms)
    IN  IF dcc >= mdc
        THEN [cc |-> cc, dcc |-> dcc, res |-> Return(FALSE, LimitMsg, NoArg)]
        ELSE IF ~(v.kind = "return" /\ v.ok)
        THEN [cc |-> cc, dcc |-> dcc, res |-> v]
        ELSE [cc |-> cc + 1, dcc |-> dcc + 1, res |-> Return(TRUE, CycleMsg, cc + 1)]

\* execute_cycle formatting its message before it increments current_cycle
execute_cycle_stale_number(arms, cc, dcc, mdc) ==
    LET v == validate_arrangement(arms)
    IN  IF ~(v.kind = "return" /\ v.ok)
        THEN [cc |-> cc, dcc |-> dcc, res |-> v]
        ELSE IF dcc >= mdc
        THEN [cc |-> cc, dcc |-> dcc, res |-> Return(FALSE, LimitMsg, NoArg)]
        ELSE [cc |-> cc + 1, dcc |-> dcc + 1, res |-> Return(TRUE, CycleMsg, cc)]

\* execute_cycle losing the update of current_cycle (the number is reissued)
execute_cycle_lost_update(arms, cc, dcc, mdc) ==
    LET v == validate_arrangement(arms)
    IN  IF ~(v.kind = "return" /\ v.ok)
        THEN [cc |-> cc, dcc |-> dcc, res |-> v]
        ELSE IF dcc >= mdc
        THEN [cc |-> cc, dcc |-> dcc, res |-> Return(FALSE, LimitMsg, NoArg)]
        ELSE [cc |-> cc, dcc |-> dcc + 1, res |-> Return(TRUE, CycleMsg, cc + 1)]

\* the new (current_cycle, daily_cycles_completed, result) of execute_cycle
execute_cycle(arms, cc, dcc, mdc) ==
    LET v == validate_arrangement(arms)
    IN  IF ~(v.kind = "return" /\ v.ok)
        THEN [cc |-> cc, dcc |-> dcc, res |-> v]
        ELSE IF dcc >= mdc
        THEN [cc |-> cc, dcc |-> dcc, res |-> Return(FALSE, LimitMsg, NoArg)]
        ELSE [cc |-> cc + 1, dcc |-> dcc + 1, res |-> Return(TRUE, CycleMsg, cc + 1)]

\* change_arrangement adding the setup time to the quota
change_arrangement_adds(mdc, setup_time_loss) == Max(0, mdc + setup_time_loss)

\* the new max_daily_cycles of change_arrangement
change_arrangement(mdc, setup_time_loss) == Max(0, mdc - setup_time_loss)

ValidateArrangement ==
    /\ call' = [op |-> "validate_arrangement"]
    /\ ret' = validate_arrangement(arms_list)
    /\ UNCHANGED <<machineVars, orderVars, weightVars, molds, mwc, history>>

ExecuteCycle ==
    LET e == execute_cycle(arms_list, current_cycle, daily_cycles_completed,
                           max_daily_cycles)
    IN  /\ current_cycle' = e.cc
        /\ daily_cycles_completed' = e.dcc
        /\ call' = [op |-> "execute_cycle"]
        /\ ret' = e.res
        /\ UNCHANGED <<arms_list, max_daily_cycles, orderVars, weightVars, molds, mwc, history>>

ChangeArrangement ==
    \E k \in (-1) .. MaxLoss :
        /\ change_arrangement(max_daily_cycles, k) <= MaxQuota
        /\ max_daily_cycles' = change_arrangement(max_daily_cycles, k)
        /\ call' = [op |-> "change_arrangement", setup_time_loss |-> k]
        /\ ret' = Return(TRUE, "Arrangement changed, cycles lost to setup", k)
        /\ UNCHANGED <<arms_list, current_cycle, daily_cycles_completed,
                       orderVars, weightVars, molds, mwc, history>>

(***************************************************************************)
(* The arrangements a machine is constructed with.  The source has no      *)
(* mounting method: callers fill arms_list, current_molds and the side     *)
(* torques directly, so Init draws the arrangement.                        *)
(***************************************************************************)
MoldLists ==
    { <<>>, <<MoldA1>>, <<MoldA1, MoldA4>>, <<MoldA1, MoldB1, MoldB2>>,
      <<MoldB1, MoldA1, MoldB2>>, <<MoldA3, MoldA1>>, <<MoldA1, MoldA3>> }

MkArm(id, shape) ==
    [arm_id |-> id, max_volume |-> shape[2], torque_left_side |-> shape[3],
     torque_right_side |-> 0, current_molds |-> shape[1], current_spiders |-> <<>>]

\* <<current_molds, max_volume, torque_left_side>>: every mold list on a
\* balanced arm of volume 40 that holds it, and arms too small (volume 25),
\* unbalanced (no left torque), or both
ArmShapes ==
    { <<ms, 40, SumTorque(ms)>> : ms \in MoldLists }
    \cup { <<<<MoldA1, MoldB1, MoldB2>>, 25, 75>>,
           <<<<MoldA1>>, 40, 0>>,
           <<<<MoldA1, MoldB1, MoldB2>>, 25, 0>>,
           <<<<MoldA3, MoldA1>>, 40, 0>> }

ArmsWithId(id) == { MkArm(id, shape) : shape \in ArmShapes }

Arrangements ==
    UNION { { a \in [1 .. n -> UNION { ArmsWithId(i) : i \in 1 .. MaxArms }] :
                \A i \in 1 .. n : a[i].arm_id = i } : n \in 0 .. MaxArms }

IdleOrder ==
    /\ mold_requirements = EmptyMap
    /\ completion_status = EmptyMap
    /\ is_complete = FALSE
IdleWeight ==
    /\ weight_options = <<>>
    /\ weight = 0
IdleMachine ==
    /\ arms_list = <<>>
    /\ current_cycle = 0
    /\ daily_cycles_completed = 0
    /\ max_daily_cycles = InitialMaxDailyCycles
IdleDb == molds = EmptyMap
IdleMwc == mwc = [pc |-> "idle"]
IdleCall == call = NoCall /\ ret = NoRet
NoHistory == [issued |-> <<>>, callers |-> {}, negative_loss |-> FALSE]
IdleHistory == history = NoHistory

Init ==
    /\ arms_list \in Arrangements
    /\ current_cycle = 0
    /\ daily_cycles_completed = 0
    /\ max_daily_cycles = InitialMaxDailyCycles
    /\ IdleOrder /\ IdleWeight /\ IdleDb /\ IdleMwc /\ IdleHistory /\ IdleCall

Next == ValidateArrangement \/ ExecuteCycle \/ ChangeArrangement

Spec == Init /\ [][Next]_vars

(***************************************************************************)
(* Order (src/one.py:247-278).                                             *)
(***************************************************************************)
MoldIds == {"X", "Y"}

\* update_progress without the clamp to the requirement
update_progress_unclamped(cs, req, mold_id, quantity_produced) ==
    LET cs0 == IF mold_id \in DOMAIN cs THEN cs ELSE cs @@ (mold_id :> 0)
    IN  [cs0 EXCEPT ![mold_id] = @ + quantity_produced]

\* the new completion_status of update_progress
update_progress(cs, req, mold_id, quantity_produced) ==
    LET cs0 == IF mold_id \in DOMAIN cs THEN cs ELSE cs @@ (mold_id :> 0)
        cs1 == [cs0 EXCEPT ![mold_id] = @ + quantity_produced]
    IN  IF mold_id \in DOMAIN req /\ cs1[mold_id] >= req[mold_id]
        THEN [cs1 EXCEPT ![mold_id] = req[mold_id]]
        ELSE cs1

\* completion_status.get(mold_id, 0)
StatusGet(cs, mold_id) == IF mold_id \in DOMAIN cs THEN cs[mold_id] ELSE 0

\* check_completion comparing with <= where the code has <
check_completion_strict(cs, req) ==
    ~ \E mold_id \in DOMAIN req : StatusGet(cs, mold_id) <= req[mold_id]

\* check_completion's result: false at the first requirement not met
check_completion(cs, req) ==
    ~ \E mold_id \in DOMAIN req : StatusGet(cs, mold_id) < req[mold_id]

UpdateProgress ==
    \E mold_id \in MoldIds, q \in 0 .. MaxQty :
        /\ StatusGet(completion_status, mold_id) + q <= MaxTracked
        /\ completion_status' =
               update_progress(completion_status, mold_requirements, mold_id, q)
        /\ call' = [op |-> "update_progress", mold_id |-> mold_id,
                    quantity_produced |-> q]
        /\ ret' = Value("None")
        /\ UNCHANGED <<mold_requirements, is_complete, machineVars, weightVars,
                       molds, mwc, history>>

CheckCompletion ==
    /\ is_complete' = check_completion(completion_status, mold_requirements)
    /\ call' = [op |-> "check_completion"]
    /\ ret' = Value(check_completion(completion_status, mold_requirements))
    /\ UNCHANGED <<mold_requirements, completion_status, machineVars, weightVars,
                   molds, mwc, history>>

Requirements ==
    UNION { [ids -> 0 .. MaxReq] : ids \in SUBSET MoldIds }

InitOrder ==
    /\ mold_requirements \in Requirements
    /\ completion_status = EmptyMap
    /\ is_complete = FALSE
    /\ IdleMachine /\ IdleWeight /\ IdleDb /\ IdleMwc /\ IdleHistory /\ IdleCall

NextOrder == UpdateProgress \/ CheckCompletion

SpecOrder == InitOrder /\ [][NextOrder]_vars

(***************************************************************************)
(* BalancingWeight.apply_weight (src/one.py:154-166).                      *)
(***************************************************************************)
OptionValues == (-1) .. MaxOption

OptionLists == UNION { [1 .. n -> OptionValues] : n \in 0 .. MaxOpts }

\* weight_value in self.weight_options
InList(v, list) == \E i \in 1 .. Len(list) : list[i] = v

\* apply_weight assigning before it tests membership
apply_weight_unchecked(options, w, weight_value) ==
    [weight |-> weight_value, res |-> InList(weight_value, options)]

\* the new weight and the result of apply_weight
apply_weight(options, w, weight_value) ==
    IF InList(weight_value, options)
    THEN [weight |-> weight_value, res |-> TRUE]
    ELSE [weight |-> w, res |-> FALSE]

ApplyWeight ==
    \E v \in (-1) .. (MaxOption + 1) :
        LET a == apply_weight(weight_options, weight, v)
        IN  /\ weight' = a.weight
            /\ call' = [op |-> "apply_weight", weight_value |-> v]
            /\ ret' = Value(a.res)
            /\ UNCHANGED <<weight_options, machineVars, orderVars, molds, mwc, history>>

InitWeight ==
    /\ weight_options \in OptionLists
    /\ weight = 0
    /\ IdleMachine /\ IdleOrder /\ IdleDb /\ IdleMwc /\ IdleHistory /\ IdleCall

NextWeight == ApplyWeight

SpecWeight == InitWeight /\ [][NextWeight]_vars

(***************************************************************************)
(* MoldDatabase.update_availability (src/molds_class_complete.py:89-91).   *)
(* molds maps a mold_id to its Mold's available_quantity.                  *)
(***************************************************************************)
CatalogIds == {"CCIT 50", "CCIT 60"}

\* the new molds of update_availability
update_availability(ms, mold_id, quantity_used) ==
    IF mold_id \in DOMAIN ms
    THEN [ms EXCEPT ![mold_id] = @ - quantity_used]
    ELSE ms

UpdateAvailability ==
    \E mold_id \in CatalogIds \cup {"NON_EXISTENT"}, q \in (-1) .. MaxUse :
        LET new == update_availability(molds, mold_id, q)
        IN  /\ \A m \in DOMAIN new : new[m] >= -MaxDebt /\ new[m] <= MaxStock + 1
            /\ molds' = new
            /\ call' = [op |-> "update_availability", mold_id |-> mold_id,
                        quantity_used |-> q]
            /\ ret' = Value("None")
            /\ UNCHANGED <<machineVars, orderVars, weightVars, mwc, history>>

InitDb ==
    /\ molds \in [CatalogIds -> 0 .. MaxStock]
    /\ IdleMachine /\ IdleOrder /\ IdleWeight /\ IdleMwc /\ IdleHistory /\ IdleCall

NextDb == UpdateAvailability

SpecDb == InitDb /\ [][NextDb]_vars

(***************************************************************************)
(* BalancingWeight.minimize_weight_count (src/one.py:188-197), one step    *)
(* per loop test.  Torques and weight options are in halves.  mwc is the   *)
(* call's frame: pc, target_torque, the sorted options, the index of the   *)
(* for loop, remaining_torque and weights_needed.                          *)
(***************************************************************************)
\* sorted(list, reverse=True)
RECURSIVE InsertDesc(_, _)
InsertDesc(x, sorted) ==
    IF sorted = <<>> THEN <<x>>
    ELSE IF x >= Head(sorted) THEN <<x>> \o sorted
    ELSE <<Head(sorted)>> \o InsertDesc(x, Tail(sorted))

RECURSIVE SortDesc(_)
SortDesc(list) ==
    IF list = <<>> THEN <<>> ELSE InsertDesc(Head(list), SortDesc(Tail(list)))

\* the frame on entry, with remaining_torque = target_torque (no abs)
mwc_enter_signed(options, target_torque) ==
    [pc |-> "loop", target_torque |-> target_torque, sorted |-> SortDesc(options),
     idx |-> 1, remaining_torque |-> target_torque, weights_needed |-> 0]

\* the frame on entry: lines 190-191 and the sorted list of line 193
mwc_enter(options, target_torque) ==
    [pc |-> "loop", target_torque |-> target_torque, sorted |-> SortDesc(options),
     idx |-> 1, remaining_torque |-> Abs(target_torque), weights_needed |-> 0]

MaxCount == MaxTarget + 1

MwcCall ==
    \E t \in (-MaxTarget) .. MaxTarget :
        /\ mwc.pc \in {"idle", "done"}
        /\ mwc' = mwc_enter(weight_options, t)
        /\ call' = [op |-> "minimize_weight_count", target_torque |-> t]
        /\ ret' = NoRet
        /\ UNCHANGED <<weight_options, weight, machineVars, orderVars, molds, history>>

\* the while test succeeds: one more weight of the current denomination
MwcSubtract ==
    /\ mwc.pc = "loop"
    /\ mwc.idx <= Len(mwc.sorted)
    /\ mwc.sorted[mwc.idx] <= mwc.remaining_torque
    /\ mwc.weights_needed < MaxCount
    /\ mwc' = [mwc EXCEPT !.remaining_torque = @ - mwc.sorted[mwc.idx],
                          !.weights_needed = @ + 1]
    /\ UNCHANGED <<call, ret, weight_options, weight, machineVars, orderVars, molds, history>>

\* the while test fails: the for loop moves to the next denomination
MwcNextWeight ==
    /\ mwc.pc = "loop"
    /\ mwc.idx <= Len(mwc.sorted)
    /\ mwc.sorted[mwc.idx] > mwc.remaining_torque
    /\ mwc' = [mwc EXCEPT !.idx = @ + 1]
    /\ UNCHANGED <<call, ret, weight_options, weight, machineVars, orderVars, molds, history>>

\* the for loop is exhausted: return weights_needed
MwcReturn ==
    /\ mwc.pc = "loop"
    /\ mwc.idx > Len(mwc.sorted)
    /\ mwc' = [mwc EXCEPT !.pc = "done"]
    /\ ret' = Value(mwc.weights_needed)
    /\ UNCHANGED <<call, weight_options, weight, machineVars, orderVars, molds, history>>

InitMin ==
    /\ weight_options \in OptionLists
    /\ weight = 0
    /\ IdleMachine /\ IdleOrder /\ IdleDb /\ IdleMwc /\ IdleHistory /\ IdleCall

NextMin == MwcCall \/ MwcSubtract \/ MwcNextWeight \/ MwcReturn

SpecMin == InitMin /\ [][NextMin]_vars

(***************************************************************************)
(* BalancingWeight.calculate_optimal_weights (src/one.py:174-185).         *)
(* Torques and weight options are in halves.                               *)
(***************************************************************************)
Positions == {"left", "right"}

PositionLists == UNION { [1 .. n -> Positions] : n \in 0 .. MaxPositions }

\* the inner for loop: the index, from j on, of the first weight of the
\* sorted list that is <= remaining_torque; 0 when the loop ends without break
RECURSIVE FirstFit(_, _, _)
FirstFit(sorted, j, remaining_torque) ==
    IF j > Len(sorted) THEN 0
    ELSE IF sorted[j] <= remaining_torque THEN j
    ELSE FirstFit(sorted, j + 1, remaining_torque)

\* the outer for loop, keeping remaining_torque as it was (no deduction)
RECURSIVE CowLoopNoDeduct(_, _, _, _, _)
CowLoopNoDeduct(sorted, available_positions, i, remaining_torque, optimal_config) ==
    IF i > Len(available_positions) THEN optimal_config
    ELSE LET j == FirstFit(sorted, 1, remaining_torque)
             w == sorted[j]
         IN  IF j = 0
             THEN CowLoopNoDeduct(sorted, available_positions, i + 1, remaining_torque,
                                  optimal_config)
             ELSE CowLoopNoDeduct(sorted, available_positions, i + 1, remaining_torque,
                          Append(optimal_config,
                                 [weight |-> w, position |-> available_positions[i]]))

calculate_optimal_weights_no_deduct(options, target_torque, available_positions) ==
    CowLoopNoDeduct(SortDesc(options), available_positions, 1, Abs(target_torque), <<>>)

\* the outer for loop over available_positions, from index i
RECURSIVE CowLoop(_, _, _, _, _)
CowLoop(sorted, available_positions, i, remaining_torque, optimal_config) ==
    IF i > Len(available_positions) THEN optimal_config
    ELSE LET j == FirstFit(sorted, 1, remaining_torque)
             w == sorted[j]
         IN  IF j = 0
             THEN CowLoop(sorted, available_positions, i + 1, remaining_torque,
                          optimal_config)
             ELSE CowLoop(sorted, available_positions, i + 1, remaining_torque - w,
                          Append(optimal_config,
                                 [weight |-> w, position |-> available_positions[i]]))

\* the list calculate_optimal_weights returns
calculate_optimal_weights(options, target_torque, available_positions) ==
    CowLoop(SortDesc(options), available_positions, 1, Abs(target_torque), <<>>)

\* the call drawn by InitOpt is made
CalculateOptimalWeights ==
    /\ call.op = "calculate_optimal_weights"
    /\ ret = NoRet
    /\ ret' = Value(calculate_optimal_weights(weight_options, call.target_torque,
                                              call.available_positions))
    /\ UNCHANGED <<call, weight_options, weight, machineVars, orderVars, molds, mwc, history>>

\* a BalancingWeight and the arguments of one call
InitOpt ==
    /\ weight_options \in OptionLists
    /\ weight = 0
    /\ \E t \in (-MaxTarget) .. MaxTarget, ps \in PositionLists :
          call = [op |-> "calculate_optimal_weights", target_torque |-> t,
                  available_positions |-> ps]
    /\ ret = NoRet
    /\ IdleMachine /\ IdleOrder /\ IdleDb /\ IdleMwc /\ IdleHistory

NextOpt == CalculateOptimalWeights

SpecOpt == InitOpt /\ [][NextOpt]_vars

(***************************************************************************)
(* Arm.check_temperature_compatibility and check_duration_compatibility    *)
(* (src/one.py:132-150), called on one arm; arms_list holds that arm.      *)
(***************************************************************************)
MoldCatalog == {MoldA1, MoldA3, MoldA4, MoldB1, MoldB2}

MountedLists == UNION { [1 .. n -> MoldCatalog] : n \in 0 .. MaxMolds }

\* what a check hands to its caller: a boolean, or the ZeroDivisionError
CheckResult(c) == IF c = "E" THEN Raise("ZeroDivisionError") ELSE Value(c = "T")

CheckTemperatureCompatibility ==
    /\ call' = [op |-> "check_temperature_compatibility"]
    /\ ret' = CheckResult(check_temperature_compatibility(arms_list[1]))
    /\ UNCHANGED <<machineVars, orderVars, weightVars, molds, mwc, history>>

CheckDurationCompatibility ==
    /\ call' = [op |-> "check_duration_compatibility"]
    /\ ret' = CheckResult(check_duration_compatibility(arms_list[1]))
    /\ UNCHANGED <<machineVars, orderVars, weightVars, molds, mwc, history>>

InitArm ==
    /\ \E ms \in MountedLists : arms_list = << MkArm(1, <<ms, 40, 0>>) >>
    /\ current_cycle = 0
    /\ daily_cycles_completed = 0
    /\ max_daily_cycles = InitialMaxDailyCycles
    /\ IdleOrder /\ IdleWeight /\ IdleDb /\ IdleMwc /\ IdleHistory /\ IdleCall

NextArm == CheckTemperatureCompatibility \/ CheckDurationCompatibility

SpecArm == InitArm /\ [][NextArm]_vars

(***************************************************************************)
(* One RTXMachine shared by several callers (src/one.py:211-243).  The     *)
(* calls are serialized: each action is one whole call by one caller.      *)
(* history keeps the cycle numbers the successful execute_cycle calls      *)
(* returned, in order, the callers that got one, and whether a             *)
(* change_arrangement was given a negative setup_time_loss.                *)
(***************************************************************************)
Callers == 1 .. MaxCallers

CallerArrangements == { a \in Arrangements : Len(a) <= 1 }

ValidateArrangementBy(c) ==
    /\ call' = [op |-> "validate_arrangement", caller |-> c]
    /\ ret' = validate_arrangement(arms_list)
    /\ UNCHANGED <<machineVars, orderVars, weightVars, molds, mwc, history>>

ExecuteCycleBy(c) ==
    LET e == execute_cycle(arms_list, current_cycle, daily_cycles_completed,
                           max_daily_cycles)
    IN  /\ current_cycle' = e.cc
        /\ daily_cycles_completed' = e.dcc
        /\ call' = [op |-> "execute_cycle", caller |-> c]
        /\ ret' = e.res
        /\ history' =
               IF e.res.kind = "return" /\ e.res.ok
               THEN [history EXCEPT !.issued = Append(@, e.res.arg),
                                    !.callers = @ \cup {c}]
               ELSE history
        /\ UNCHANGED <<arms_list, max_daily_cycles, orderVars, weightVars,
                       molds, mwc>>

ChangeArrangementBy(c) ==
    \E k \in (-1) .. MaxLoss :
        /\ change_arrangement(max_daily_cycles, k) <= MaxQuota
        /\ max_daily_cycles' = change_arrangement(max_daily_cycles, k)
        /\ call' = [op |-> "change_arrangement", caller |-> c,
                    setup_time_loss |-> k]
        /\ ret' = Return(TRUE, "Arrangement changed, cycles lost to setup", k)
        /\ history' = [history EXCEPT !.negative_loss = @ \/ k < 0]
        /\ UNCHANGED <<arms_list, current_cycle, daily_cycles_completed,
                       orderVars, weightVars, molds, mwc>>

InitCallers ==
    /\ arms_list \in CallerArrangements
    /\ current_cycle = 0
    /\ daily_cycles_completed = 0
    /\ max_daily_cycles = InitialMaxDailyCycles
    /\ IdleOrder /\ IdleWeight /\ IdleDb /\ IdleMwc /\ IdleHistory /\ IdleCall

NextCallers ==
    \E c \in Callers :
        \/ ValidateArrangementBy(c)
        \/ ExecuteCycleBy(c)
        \/ ChangeArrangementBy(c)

SpecCallers == InitCallers /\ [][NextCallers]_vars


(***************************************************************************)
(* Claims about RTXMachine, checked under Spec.                            *)
(***************************************************************************)
ValidationPasses == validate_arrangement(arms_list) = Return(TRUE, AllSatisfiedMsg, NoArg)
ValidationFails ==
    /\ validate_arrangement(arms_list).kind = "return"
    /\ ~validate_arrangement(arms_list).ok

\* C1: execute_cycle() called where validate_arrangement() passes and
\* daily_cycles_completed >= max_daily_cycles returns
\* (false, "Daily cycle limit reached") and leaves current_cycle,
\* daily_cycles_completed and max_daily_cycles unchanged.
C1_LimitReached ==
    [][ (/\ call'.op = "execute_cycle"
         /\ ValidationPasses
         /\ daily_cycles_completed >= max_daily_cycles)
        => (/\ ret' = Return(FALSE, LimitMsg, NoArg)
            /\ UNCHANGED <<current_cycle, daily_cycles_completed, max_daily_cycles>>) ]_vars

\* a call refused at the limit after cycles have run
C1_Witness ==
    /\ call.op = "execute_cycle"
    /\ ValidationPasses
    /\ Len(arms_list) > 0
    /\ ret = Return(FALSE, LimitMsg, NoArg)
    /\ daily_cycles_completed = max_daily_cycles
    /\ current_cycle > 0

\* C2: whenever validate_arrangement() fails, execute_cycle() returns exactly
\* validate_arrangement()'s (false, message) pair, also when
\* daily_cycles_completed >= max_daily_cycles, and no machine counter changes.
C2_ValidationFirst ==
    [][ (call'.op = "execute_cycle" /\ ValidationFails)
        => (/\ ret' = validate_arrangement(arms_list)
            /\ ret'.ok = FALSE
            /\ ret'.text # LimitMsg
            /\ UNCHANGED <<current_cycle, daily_cycles_completed, max_daily_cycles>>) ]_vars

\* a call on an invalid arrangement with the quota exhausted
C2_Witness ==
    /\ call.op = "execute_cycle"
    /\ ValidationFails
    /\ ret = validate_arrangement(arms_list)
    /\ daily_cycles_completed >= max_daily_cycles

\* C3: when validate_arrangement() passes and daily_cycles_completed <
\* max_daily_cycles, execute_cycle() adds exactly 1 to current_cycle and to
\* daily_cycles_completed, leaves max_daily_cycles and the arms unchanged and
\* returns (true, "Cycle n completed successfully") with n the new
\* current_cycle; and no call ever decreases current_cycle.
C3_CycleCounted ==
    [][ /\ (/\ call'.op = "execute_cycle"
            /\ ValidationPasses
            /\ daily_cycles_completed < max_daily_cycles)
           => (/\ current_cycle' = current_cycle + 1
               /\ daily_cycles_completed' = daily_cycles_completed + 1
               /\ UNCHANGED <<max_daily_cycles, arms_list>>
               /\ ret' = Return(TRUE, CycleMsg, current_cycle'))
        /\ current_cycle' >= current_cycle ]_vars

\* a second successful cycle on a machine with arms
C3_Witness ==
    /\ call.op = "execute_cycle"
    /\ Len(arms_list) > 0
    /\ ret = Return(TRUE, CycleMsg, 2)
    /\ current_cycle = 2

\* C4 as claimed: for every setup_time_loss k, change_arrangement(k) sets
\* max_daily_cycles to max(0, old - k) and never increases it.
C4_NeverIncreases ==
    [][ call'.op = "change_arrangement"
        => (/\ max_daily_cycles' = Max(0, max_daily_cycles - call'.setup_time_loss)
            /\ max_daily_cycles' <= max_daily_cycles) ]_vars

\* an arm passes the four checks; the message of the first it does not pass
ArmPasses(arm) ==
    /\ check_spatial_constraint(arm) = "T"
    /\ check_balance_constraint(arm) = "T"
    /\ check_temperature_compatibility(arm) = "T"
    /\ check_duration_compatibility(arm) = "T"

FirstFailureText(arm) ==
    CASE check_spatial_constraint(arm) # "T" -> SpatialMsg
      [] check_spatial_constraint(arm) = "T" /\ check_balance_constraint(arm) # "T"
            -> BalanceMsg
      [] check_spatial_constraint(arm) = "T" /\ check_balance_constraint(arm) = "T"
         /\ check_temperature_compatibility(arm) # "T" -> TemperatureMsg
      [] OTHER -> DurationMsg

\* C5 as claimed: validate_arrangement() returns (true, "All constraints
\* satisfied") iff every arm passes all four checks, and otherwise returns
\* (false, message) for the first arm in list order that does not, the
\* message naming the first of spatial, balance, temperature, duration that
\* arm does not pass and the arm's id; it changes no machine or arm state.
C5_FirstFailure ==
    [][ call'.op = "validate_arrangement"
        => /\ UNCHANGED <<arms_list, current_cycle, daily_cycles_completed, max_daily_cycles>>
           /\ IF \A i \in 1 .. Len(arms_list) : ArmPasses(arms_list[i])
              THEN ret' = Return(TRUE, AllSatisfiedMsg, NoArg)
              ELSE LET f == CHOOSE i \in 1 .. Len(arms_list) :
                                /\ ~ArmPasses(arms_list[i])
                                /\ \A j \in 1 .. (i - 1) : ArmPasses(arms_list[j])
                   IN  ret' = Return(FALSE, FirstFailureText(arms_list[f]),
                                     arms_list[f].arm_id) ]_vars

(***************************************************************************)
(* Claims about one RTXMachine shared by several callers, checked under    *)
(* SpecCallers.                                                            *)
(***************************************************************************)
\* a step in which an execute_cycle call succeeded
CycleIssued == Len(history'.issued) = Len(history.issued) + 1

\* C14: with the execute_cycle and change_arrangement calls of several
\* callers serialized, in every interleaving each successful execute_cycle
\* starts with daily_cycles_completed < max_daily_cycles and ends with
\* daily_cycles_completed <= max_daily_cycles, and current_cycle has grown
\* by exactly the number of successful calls, whose cycle numbers are
\* 1, 2, ... in order: none lost, none issued twice.
C14_SerializedCallers ==
    /\ [](/\ current_cycle = Len(history.issued)
          /\ \A i \in 1 .. Len(history.issued) : history.issued[i] = i)
    /\ [][CycleIssued =>
              /\ daily_cycles_completed < max_daily_cycles
              /\ daily_cycles_completed' <= max_daily_cycles'
              /\ current_cycle' = current_cycle + 1
              /\ ret'.arg = current_cycle']_vars

\* every caller was issued a cycle, change_arrangement lowered the quota,
\* and the last successful execute_cycle used up what was left of it
C14_Witness ==
    /\ history.callers = Callers
    /\ call.op = "execute_cycle"
    /\ ret.kind = "return" /\ ret.ok
    /\ max_daily_cycles < InitialMaxDailyCycles
    /\ daily_cycles_completed = max_daily_cycles
    /\ current_cycle >= 2

\* C15: in every state reachable from construction by validate_arrangement,
\* execute_cycle and change_arrangement calls, current_cycle equals
\* daily_cycles_completed, and as long as no setup_time_loss was negative
\* the number of successful execute_cycle calls is at most the initial
\* quota of 7.
C15_CountersAgree ==
    /\ current_cycle = daily_cycles_completed
    /\ ~history.negative_loss =>
           Len(history.issued) <= InitialMaxDailyCycles

\* the whole initial quota was executed, with no negative setup_time_loss
C15_Witness ==
    /\ ~history.negative_loss
    /\ Len(history.issued) = InitialMaxDailyCycles
    /\ current_cycle = InitialMaxDailyCycles
    /\ daily_cycles_completed = InitialMaxDailyCycles

OnlyX(n) == "X" :> n

\* C7: check_completion() returns true iff every mold_id in mold_requirements
\* is tracked at its requirement or more (untracked counting as 0) and sets
\* is_complete to what it returns; with the requirement {X: 5},
\* update_progress(X, 3) twice leaves X tracked at 5 and check_completion()
\* returns true.
C7_Completion ==
    [][ /\ call'.op = "check_completion"
           => /\ ret'.value =
                    (\A m \in DOMAIN mold_requirements :
                        (IF m \in DOMAIN completion_status
                         THEN completion_status[m] ELSE 0) >= mold_requirements[m])
              /\ is_complete' = ret'.value
              /\ UNCHANGED <<completion_status, mold_requirements>>
        /\ (/\ call'.op = "update_progress"
            /\ call'.mold_id = "X" /\ call'.quantity_produced = 3
            /\ mold_requirements = OnlyX(5))
           => /\ completion_status = EmptyMap => completion_status' = OnlyX(3)
              /\ completion_status = OnlyX(3) => completion_status' = OnlyX(5)
        /\ (/\ call'.op = "check_completion"
            /\ mold_requirements = OnlyX(5)
            /\ completion_status = OnlyX(5))
           => ret'.value = TRUE ]_vars

\* the order {X: 5} found complete with X tracked at 5
C7_Witness ==
    /\ call.op = "check_completion"
    /\ mold_requirements = OnlyX(5)
    /\ completion_status = OnlyX(5)
    /\ ret = Value(TRUE)
    /\ is_complete

(***************************************************************************)
(* Claim about BalancingWeight.apply_weight, checked under SpecWeight.     *)
(***************************************************************************)
\* C8: after any sequence of apply_weight calls weight is a member of
\* weight_options or 0; apply_weight(value) sets weight and returns true
\* exactly when value is in weight_options, and otherwise returns false and
\* leaves weight unchanged.
C8_WeightInOptions ==
    [][ /\ weight' \in Range(weight_options') \cup {0}
        /\ call'.op = "apply_weight"
           => IF call'.weight_value \in Range(weight_options)
              THEN weight' = call'.weight_value /\ ret' = Value(TRUE)
              ELSE weight' = weight /\ ret' = Value(FALSE) ]_vars

\* a value outside weight_options refused after another was applied
C8_Witness ==
    /\ call.op = "apply_weight"
    /\ ret = Value(FALSE)
    /\ call.weight_value \notin Range(weight_options)
    /\ weight # 0
    /\ weight \in Range(weight_options)

(***************************************************************************)
(* Claim about MoldDatabase.update_availability, checked under SpecDb.     *)
(***************************************************************************)
\* C9 as claimed: starting from non-negative quantities, every Mold's
\* available_quantity is >= 0 after any sequence of update_availability
\* calls, for any quantity_used; a call for a mold_id not in the catalog
\* changes no mold.
C9_NonNegative ==
    [][ /\ \A m \in DOMAIN molds' : molds'[m] >= 0
        /\ (call'.op = "update_availability" /\ call'.mold_id \notin DOMAIN molds)
           => molds' = molds ]_vars

(***************************************************************************)
(* Claims about minimize_weight_count, checked under SpecMin.  The list    *)
(* [1] of the code is <<2>> in halves.                                     *)
(***************************************************************************)
UnitOptions == <<2>>

\* C10 as claimed: minimize_weight_count never returns a negative count,
\* and for weight_options = {1} it returns floor(target_torque) for every
\* target_torque.
C10_FloorOfTarget ==
    mwc.pc = "done"
    => /\ ret.value >= 0
       /\ weight_options = UnitOptions => ret.value = mwc.target_torque \div 2

\* C10 as amended: minimize_weight_count never returns a negative count,
\* and for weight_options = {1} it returns floor(|target_torque|) for every
\* target_torque.
C10_FloorOfAbsTarget ==
    mwc.pc = "done"
    => /\ ret.value >= 0
       /\ weight_options = UnitOptions => ret.value = Abs(mwc.target_torque) \div 2

\* the count for weight_options = {1} and target_torque = -2.5
C10_Witness ==
    /\ mwc.pc = "done"
    /\ weight_options = UnitOptions
    /\ mwc.target_torque = -5
    /\ ret = Value(2)

(***************************************************************************)
(* Claim about calculate_optimal_weights, checked under SpecOpt.           *)
(***************************************************************************)
\* the largest member of the option set that is <= deficit d, if any
Fits(options, d) == { w \in Range(options) : w <= d }
LargestFit(options, d) ==
    CHOOSE w \in Fits(options, d) : \A v \in Fits(options, d) : v <= w

\* the deficit left after the first i positions: |target_torque| less the
\* largest fitting weight at each position that has one
RECURSIVE DeficitAfter(_, _, _)
DeficitAfter(options, target_torque, i) ==
    IF i = 0 THEN Abs(target_torque)
    ELSE LET d == DeficitAfter(options, target_torque, i - 1)
         IN  IF Fits(options, d) = {} THEN d ELSE d - LargestFit(options, d)

RECURSIVE SumWeights(_)
SumWeights(config) ==
    IF config = <<>> THEN 0 ELSE Head(config).weight + SumWeights(Tail(config))

\* C11: calculate_optimal_weights(target_torque, available_positions) handles
\* each position once, in the given order, and appends at most one
\* {weight, position} entry per position, its weight the largest member of
\* weight_options that is <= the remaining deficit (|target_torque| at first,
\* reduced by each chosen weight); so the result has at most
\* len(available_positions) entries in position order, and for positive
\* weight_options the weights sum to at most |target_torque|.  The
\* BalancingWeight is not mutated.
C11_GreedyPerPosition ==
    [][ (call'.op = "calculate_optimal_weights" /\ ret'.kind = "return")
        => LET t == call'.target_torque
               ps == call'.available_positions
               r == ret'.value
               \* the positions that get a weight
               K == { i \in 1 .. Len(ps) :
                        Fits(weight_options, DeficitAfter(weight_options, t, i - 1)) # {} }
               \* the number of them among the first i positions
               Rank(i) == Cardinality({ k \in K : k <= i })
           IN  /\ Len(r) = Cardinality(K)
               /\ \A i \in K :
                     r[Rank(i)] =
                        [weight |-> LargestFit(weight_options,
                                       DeficitAfter(weight_options, t, i - 1)),
                         position |-> ps[i]]
               /\ Len(r) <= Len(ps)
               /\ (\A w \in Range(weight_options) : w > 0)
                     => SumWeights(r) <= Abs(t)
               /\ UNCHANGED <<weight_options, weight>> ]_vars

\* three positions of which the first two get the weights 1.5 and 0.5
C11_Witness ==
    /\ call.op = "calculate_optimal_weights"
    /\ weight_options = <<1, 3>>
    /\ call.target_torque = -4
    /\ call.available_positions = <<"right", "left", "left">>
    /\ ret = Value(<< [weight |-> 3, position |-> "right"],
                      [weight |-> 1, position |-> "left"] >>)

\* C12 as claimed: minimize_weight_count(target_torque) terminates for every
\* weight_options list and every target_torque: every pass of the while loop
\* lowers remaining_torque, which never falls below 0, so the passes are
\* bounded; on return no weight option fits into the remaining deficit, and
\* the count returned is the number of subtractions performed.
C12_Terminates ==
    [][ /\ (mwc.pc = "loop" /\ mwc'.pc = "loop"
            /\ mwc'.weights_needed # mwc.weights_needed)
           => /\ mwc'.weights_needed = mwc.weights_needed + 1
              /\ mwc'.remaining_torque < mwc.remaining_torque
              /\ mwc'.remaining_torque >= 0
        /\ (mwc.pc = "loop" /\ mwc'.pc = "done")
           => /\ \A w \in Range(weight_options) : w > mwc'.remaining_torque
              /\ ret' = Value(mwc.weights_needed) ]_vars

(***************************************************************************)
(* Claim about the two compatibility checks of Arm, checked under SpecArm. *)
(***************************************************************************)
\* C13: check_temperature_compatibility() is true iff
\* current_molds[0].check_compatibility_with(m) holds for every other mounted
\* mold m, and check_duration_compatibility() is true iff
\* current_molds[i].check_compatibility_with(current_molds[i+1]) holds for
\* every adjacent pair; both are true for 0 or 1 mounted molds.  (That the
\* two differ on some list of 3 molds or more is C13_Witness.)
C13_AnchorAndAdjacent ==
    [][ LET ms == arms_list[1].current_molds
        IN  /\ call'.op = "check_temperature_compatibility"
               => /\ (ret' = Value(TRUE))
                       <=> \A i \in 2 .. Len(ms) :
                              check_compatibility_with(ms[1], ms[i]) = "T"
                  /\ Len(ms) <= 1 => ret' = Value(TRUE)
            /\ call'.op = "check_duration_compatibility"
               => /\ (ret' = Value(TRUE))
                       <=> \A i \in 1 .. (Len(ms) - 1) :
                              check_compatibility_with(ms[i], ms[i + 1]) = "T"
                  /\ Len(ms) <= 1 => ret' = Value(TRUE) ]_vars

\* three molds on which the temperature check is false and the duration
\* check true
C13_Witness ==
    /\ call.op = "check_temperature_compatibility"
    /\ ret = Value(FALSE)
    /\ Len(arms_list[1].current_molds) >= 3
    /\ check_duration_compatibility(arms_list[1]) = "T"

====
